---- MODULE Spec2Model ----
(***************************************************************************)
(* Model of the qfc_benchmark driver (src/do_benchmark.py): the storage    *)
(* key, the cache-or-recompute decision of do_compress, the size and       *)
(* chunk-shape helpers, the guarded store removal and the parameter sweep. *)
(*                                                                         *)
(* Conventions.  A Python number that is formatted into a path is a record *)
(* [float, n]; other numbers are integers.  segment_length_sec is held in  *)
(* milliseconds (0.1 s = 100).  None is the integer -1.  A rational such   *)
(* as a mean or a ratio is the pair <<numerator, denominator>>.  A store   *)
(* key that is tested with startswith is a sequence of one-character       *)
(* strings; a path that the code splits at "/" is the sequence of its      *)
(* segments.                                                               *)
(***************************************************************************)
EXTENDS Integers, Sequences, FiniteSets, TLC

VARIABLES
    z,          \* the artifact store: key -> dataset (attrs, codec, chunks)
    ncalls,     \* number of do_compress calls made so far
    last,       \* what the latest do_compress call did
    prev,       \* what the call before it did
    sw,         \* the sweep loop: position, results, log of calls
    pk,         \* get_compressed_path: two argument tuples and their keys
    ck,         \* get_chunks_for_shape: a shape and the outcome
    rm,         \* remove_zarr_store: path, remote file system, outcome
    ms,         \* a memory store and the size computed from it
    lib,        \* where the codec library rejects an unknown method
    st,         \* callers running do_compress one store operation at a time
    tm          \* one call made with and without estimate_compression_time

vars == <<z, ncalls, last, prev, sw, pk, ck, rm, ms, lib, st, tm>>

None == 0 - 1

(***************************************************************************)
(* Bounds of the model.                                                    *)
(***************************************************************************)
MaxCalls == 2            \* do_compress calls in one behaviour of Spec
MaxTargetLevel == 1      \* the sweep's target levels are 0..MaxTargetLevel
MaxRuns == 2             \* runs of the sweep over the same store
MaxChannels == 3         \* channel counts 0..MaxChannels (and huge ones)
MaxSlack == 2            \* row counts within MaxSlack of each threshold
MaxChunkBytes == 2       \* byte size of one stored entry, 1..MaxChunkBytes
MaxChunks == 2           \* data chunks in a memory store, 0..MaxChunks

(***************************************************************************)
(* Python values                                                           *)
(***************************************************************************)
PyInt(n) == [float |-> FALSE, n |-> n]
PyFloat(n) == [float |-> TRUE, n |-> n]

\* format(x) inside an f-string: 300 -> "300", 300.0 -> "300.0"
Fmt(x) == IF x.float THEN ToString(x.n) \o ".0" ELSE ToString(x.n)

(***************************************************************************)
(* get_filtered_path / get_compressed_path                                 *)
(***************************************************************************)
get_filtered_path(lowcut, highcut) ==
    "filtered_" \o Fmt(lowcut) \o "-" \o Fmt(highcut)

get_compressed_path_nolevel(lowcut, highcut, alg, compression_method, target_residual_stdev, compression_level) ==
    "compressed/" \o alg \o "/" \o compression_method \o "/"
        \o Fmt(target_residual_stdev) \o "/compressed_"
        \o Fmt(lowcut) \o "-" \o Fmt(highcut)

get_compressed_path(lowcut, highcut, alg, compression_method, target_residual_stdev, compression_level) ==
    "compressed/" \o alg \o "/" \o compression_method \o "/"
        \o Fmt(target_residual_stdev) \o "/compressed_"
        \o Fmt(lowcut) \o "-" \o Fmt(highcut) \o "_" \o ToString(compression_level)

\* the compression_level argument do_compress passes (lines 271-275)
SelectedLevel(compression_method, zstd_level, zlib_level) ==
    IF compression_method = "zstd" THEN zstd_level
    ELSE IF compression_method = "zlib" THEN zlib_level
    ELSE 0

(***************************************************************************)
(* get_chunks_for_shape                                                    *)
(***************************************************************************)
target_num_entries == 4000000

ChunksOk(v) == [ok |-> TRUE, val |-> v, err |-> "none"]
ChunksErr(e) == [ok |-> FALSE, val |-> <<>>, err |-> e]

get_chunks_for_shape_nosplit(shape) ==
    IF Len(shape) = 2
    THEN IF shape[2] = 0
         THEN ChunksErr("ZeroDivisionError")
         ELSE LET num_channels == shape[2]
                  num_timepoints_per_chunk == target_num_entries \div num_channels
              IN  IF shape[1] <= num_timepoints_per_chunk
                  THEN ChunksOk(<<shape[1], num_channels>>)
                  ELSE IF shape[1] <= num_timepoints_per_chunk * 2
                  THEN ChunksOk(<<shape[1] + 1, num_channels>>)
                  ELSE ChunksOk(<<num_timepoints_per_chunk, num_channels>>)
    ELSE ChunksErr("Exception")

get_chunks_for_shape(shape) ==
    IF Len(shape) = 2
    THEN IF shape[2] = 0
         THEN ChunksErr("ZeroDivisionError")
         ELSE LET num_channels == shape[2]
                  num_timepoints_per_chunk == target_num_entries \div num_channels
              IN  IF shape[1] <= num_timepoints_per_chunk
                  THEN ChunksOk(<<shape[1], num_channels>>)
                  ELSE IF shape[1] <= num_timepoints_per_chunk * 2
                  THEN ChunksOk(<<(shape[1] + 1) \div 2, num_channels>>)
                  ELSE ChunksOk(<<num_timepoints_per_chunk, num_channels>>)
    ELSE ChunksErr("Exception")

(***************************************************************************)
(* The input array and the store                                           *)
(***************************************************************************)
\* z.attrs["sampling_frequency"], written by initiate_benchmark
sampling_frequency == 30000
\* duration_sec and the number of channel_ids of the __main__ block
duration_sec == 6
num_channel_ids == 32
\* bytes of one int16 sample (X.itemsize)
itemsize == 2

\* X.shape: the filtered recording, frames x channels
XShape == <<sampling_frequency * duration_sec, num_channel_ids>>

EmptyAttrs == [k \in {} |-> 0]
EmptyStore == [k \in {} |-> 0]

\* ds.attrs[name] = value
SetAttr(attrs, name, value) == (name :> value) @@ attrs

\* ds.attrs.get(name, None)
GetAttr(attrs, name) == IF name \in DOMAIN attrs THEN attrs[name] ELSE None

\* path in z
Contains(store, path) == path \in DOMAIN store

\* z.__delitem__(path)
DelItem_compressed(store, path) ==
    [k \in DOMAIN store \cap {"raw", get_filtered_path(PyInt(300), PyInt(6000))}
        |-> store[k]]

DelItem(store, path) == [k \in DOMAIN store \ {path} |-> store[k]]

\* z.create_dataset(path, data=X, compressor=codec, chunks=...): the array
\* descriptor is written first, then every chunk is encoded and written.
\* written = FALSE is a dataset whose encode step raised.
CreateDataset(store, path, codec, chunks, written, by) ==
    (path :> [attrs |-> EmptyAttrs, codec |-> codec, chunks |-> chunks,
              written |-> written, created_by |-> by]) @@ store

\* the attribute writes of a sequence of <<name, value>> pairs, in order
RECURSIVE WriteAttrs(_, _)
WriteAttrs(attrs, writes) ==
    IF writes = <<>> THEN attrs
    ELSE WriteAttrs(SetAttr(attrs, Head(writes)[1], Head(writes)[2]), Tail(writes))

(***************************************************************************)
(* compute_size_of_zarr_store_excluding_meta                               *)
(***************************************************************************)
\* key.startswith(".")
StartsWithDot(key) == Len(key) > 0 /\ key[1] = "."

RECURSIVE SumBytes(_, _)
SumBytes(store, keys) ==
    IF keys = {} THEN 0
    ELSE LET k == CHOOSE x \in keys : TRUE
         IN  store[k] + SumBytes(store, keys \ {k})

compute_size_of_zarr_store_excluding_meta(store) ==
    SumBytes(store, {k \in DOMAIN store : ~StartsWithDot(k)})

\* keys of a zarr.MemoryStore (zarr v2 layout)
KeyZGroup == <<".", "z", "g", "r", "o", "u", "p">>
KeyTmpZArray == <<"t", "m", "p", "/", ".", "z", "a", "r", "r", "a", "y">>
KeyTmpZAttrs == <<"t", "m", "p", "/", ".", "z", "a", "t", "t", "r", "s">>
KeyTmpChunk(i) == <<"t", "m", "p", "/", ToString(i), ".", "0">>

\* zarr.open(store=memory_store, mode="w"): an empty root group
MemOpenGroup(zgroup_bytes) == (KeyZGroup :> zgroup_bytes)

\* z_memory.create_dataset("tmp", ...): the descriptor and one entry per chunk
MemCreateDataset(store, zarray_bytes, chunk_bytes) ==
    [k \in {KeyTmpChunk(i - 1) : i \in 1..Len(chunk_bytes)} |->
        chunk_bytes[CHOOSE i \in 1..Len(chunk_bytes) : KeyTmpChunk(i - 1) = k]]
    @@ (KeyTmpZArray :> zarray_bytes) @@ store

\* number of chunks along the time axis for a shape and its chunk shape
NumChunks(shape, chunks) ==
    IF chunks[1] = 0 THEN 0 ELSE (shape[1] + chunks[1] - 1) \div chunks[1]

(***************************************************************************)
(* do_compress                                                             *)
(*                                                                         *)
(* p is the keyword arguments of one call.  ext is what the collaborators  *)
(* hand back during the call: the residual measured beyond the target, the *)
(* three elapsed times, the byte sizes of the entries of the throwaway     *)
(* store, and where the codec library rejects an unknown compression       *)
(* method (in the codec constructor, or when the first chunk is encoded;   *)
(* the library is not part of the repository, so either may be the case).  *)
(***************************************************************************)
KeyOf(p) ==
    get_compressed_path(PyInt(p.lowcut), PyInt(p.highcut), p.alg,
        p.compression_method, PyInt(p.target_residual_stdev),
        SelectedLevel(p.compression_method, p.zstd_level, p.zlib_level))

\* lines 279-293: "hit", "stale", "absent" or "KeyError"
CacheCheck_noseg(store, p, path) ==
    IF ~Contains(store, path) THEN "absent"
    ELSE IF p.alg = "qfc" /\ p.target_residual_stdev = 0 THEN "stale"
    ELSE "hit"

CacheCheck_nozero(store, p, path) ==
    IF ~Contains(store, path) THEN "absent"
    ELSE LET x == store[path]
         IN  IF p.alg = "qfc" /\ p.target_residual_stdev > 0
             THEN IF "segment_length_sec" \notin DOMAIN x.attrs THEN "KeyError"
                  ELSE IF x.attrs["segment_length_sec"] # p.segment_length_sec
                  THEN "stale"
                  ELSE "hit"
             ELSE "hit"

CacheCheck_anyalg(store, p, path) ==
    IF ~Contains(store, path) THEN "absent"
    ELSE LET x == store[path]
         IN  IF p.target_residual_stdev = 0 THEN "stale"
             ELSE IF p.alg = "qfc" /\ p.target_residual_stdev > 0
             THEN IF "segment_length_sec" \notin DOMAIN x.attrs THEN "KeyError"
                  ELSE IF x.attrs["segment_length_sec"] # p.segment_length_sec
                  THEN "stale"
                  ELSE "hit"
             ELSE "hit"

CacheCheck(store, p, path) ==
    IF ~Contains(store, path) THEN "absent"
    ELSE LET x == store[path]
         IN  IF p.alg = "qfc" /\ p.target_residual_stdev = 0 THEN "stale"
             ELSE IF p.alg = "qfc" /\ p.target_residual_stdev > 0
             THEN IF "segment_length_sec" \notin DOMAIN x.attrs THEN "KeyError"
                  ELSE IF x.attrs["segment_length_sec"] # p.segment_length_sec
                  THEN "stale"
                  ELSE "hit"
             ELSE "hit"

Min(a, b) == IF a <= b THEN a ELSE b

Codec(kind, method, level, quant, segment_length, zstd_level, zlib_level) ==
    [kind |-> kind, method |-> method, level |-> level, quant |-> quant,
     segment_length |-> segment_length, zstd_level |-> zstd_level,
     zlib_level |-> zlib_level]

NoCodec == Codec("none", "none", None, <<>>, None, None, None)

\* lines 296-333: the codec, or the error raised instead
SelectCodec(p) ==
    LET segment_length == (p.segment_length_sec * sampling_frequency) \div 1000
    IN  IF p.target_residual_stdev > 0
        THEN IF p.alg = "qfc"
             THEN [ok |-> TRUE, err |-> "none",
                   codec |-> Codec("QFCCodec", p.compression_method, None,
                                   <<"qfc", p.target_residual_stdev>>,
                                   segment_length, p.zstd_level, p.zlib_level)]
             ELSE IF p.alg = "qtc"
             THEN [ok |-> TRUE, err |-> "none",
                   codec |-> Codec("QTCCodec", p.compression_method, None,
                                   <<"qtc", p.target_residual_stdev>>,
                                   None, p.zstd_level, p.zlib_level)]
             ELSE [ok |-> FALSE, err |-> "ValueError: Invalid compression algorithm",
                   codec |-> NoCodec]
        ELSE IF p.compression_method = "zstd"
             THEN [ok |-> TRUE, err |-> "none",
                   codec |-> Codec("Blosc", "zstd", Min(p.zstd_level, 9),
                                   <<>>, None, None, None)]
             ELSE IF p.compression_method = "zlib"
             THEN [ok |-> TRUE, err |-> "none",
                   codec |-> Codec("Zlib", "zlib", p.zlib_level,
                                   <<>>, None, None, None)]
             ELSE [ok |-> FALSE, err |-> "ValueError: Invalid compression method",
                   codec |-> NoCodec]

\* the codec library knows the methods zstd and zlib only
CodecAccepts(codec) ==
    codec.kind \in {"QFCCodec", "QTCCodec"} => codec.method \in {"zstd", "zlib"}

\* np.std(X - decoded): the entropy coders are lossless, the quantizing
\* codecs leave about the target
MeasuredResidual(p, codec, ext) ==
    IF codec.kind \in {"QFCCodec", "QTCCodec"}
    THEN p.target_residual_stdev + ext.resid_excess
    ELSE 0

\* lines 364-372: the throwaway store the ratio is measured on
RatioStore(ext) ==
    MemCreateDataset(MemOpenGroup(ext.zgroup_bytes), ext.zarray_bytes,
                     ext.chunk_bytes)

Sum3(t) == t[1] + t[2] + t[3]

\* lines 344-398: the attribute writes of a call that creates, in order
AttrWrites_lasttime(p, codec, ext) ==
    (IF p.estimate_compression_time
     THEN << <<"compression_time_sec", <<ext.elapsed_times[3], 1>> >> >>
     ELSE <<>>)
    \o (IF p.compute_compression_ratio
        THEN << <<"compression_ratio",
                  <<XShape[1] * XShape[2] * itemsize,
                    compute_size_of_zarr_store_excluding_meta(RatioStore(ext))>> >> >>
        ELSE <<>>)
    \o (IF p.compute_residual_stdev
        THEN << <<"residual_stdev", MeasuredResidual(p, codec, ext)>> >>
        ELSE <<>>)
    \o (IF p.alg = "qfc" /\ p.target_residual_stdev > 0
        THEN << <<"segment_length_sec", p.segment_length_sec>> >>
        ELSE <<>>)
    \o << <<"lowcut", p.lowcut>>, <<"highcut", p.highcut>>, <<"alg", p.alg>>,
          <<"compression_method", p.compression_method>>,
          <<"target_residual_stdev", p.target_residual_stdev>> >>
    \o (IF p.compression_method = "zstd"
        THEN << <<"zstd_level", p.zstd_level>> >>
        ELSE IF p.compression_method = "zlib"
        THEN << <<"zlib_level", p.zlib_level>> >>
        ELSE <<>>)

AttrWrites(p, codec, ext) ==
    (IF p.estimate_compression_time
     THEN << <<"compression_time_sec", <<Sum3(ext.elapsed_times), 3>> >> >>
     ELSE <<>>)
    \o (IF p.compute_compression_ratio
        THEN << <<"compression_ratio",
                  <<XShape[1] * XShape[2] * itemsize,
                    compute_size_of_zarr_store_excluding_meta(RatioStore(ext))>> >> >>
        ELSE <<>>)
    \o (IF p.compute_residual_stdev
        THEN << <<"residual_stdev", MeasuredResidual(p, codec, ext)>> >>
        ELSE <<>>)
    \o (IF p.alg = "qfc" /\ p.target_residual_stdev > 0
        THEN << <<"segment_length_sec", p.segment_length_sec>> >>
        ELSE <<>>)
    \o << <<"lowcut", p.lowcut>>, <<"highcut", p.highcut>>, <<"alg", p.alg>>,
          <<"compression_method", p.compression_method>>,
          <<"target_residual_stdev", p.target_residual_stdev>> >>
    \o (IF p.compression_method = "zstd"
        THEN << <<"zstd_level", p.zstd_level>> >>
        ELSE IF p.compression_method = "zlib"
        THEN << <<"zlib_level", p.zlib_level>> >>
        ELSE <<>>)

\* the outcome of a call: the store it leaves, the store operations it made
\* (in order), and the dataset it returned or the error it raised
Returned(store, ops, path, hit) ==
    [z |-> store, ops |-> ops, outcome |-> "returned", err |-> "none",
     path |-> path, hit |-> hit, attrs |-> store[path].attrs]

Raised(store, ops, path, err) ==
    [z |-> store, ops |-> ops, outcome |-> "raised", err |-> err,
     path |-> path, hit |-> FALSE, attrs |-> EmptyAttrs]

OpsOfWrites(writes) == [i \in 1..Len(writes) |-> "attr:" \o writes[i][1]]

\* lines 338-372: the encodes of a call that creates, in order, each with the
\* store it writes to; a memory store is made anew for every encode
EncodeLog(p) ==
    << [store |-> "z", fresh |-> FALSE] >>
    \o (IF p.estimate_compression_time
        THEN [i \in 1..3 |-> [store |-> "memory_store/timing/" \o ToString(i),
                              fresh |-> TRUE]]
        ELSE <<>>)
    \o (IF p.compute_compression_ratio \/ p.compute_residual_stdev
        THEN << [store |-> "memory_store/ratio", fresh |-> TRUE] >>
        ELSE <<>>)

\* the encodes a call made
EncodesOf(p, r) ==
    IF r.outcome = "returned" /\ ~r.hit THEN EncodeLog(p)
    ELSE IF "create_dataset" \in {r.ops[i] : i \in 1..Len(r.ops)}
    THEN << [store |-> "z", fresh |-> FALSE] >>
    ELSE <<>>

do_compress(store, p, ext) ==
    LET path == KeyOf(p)
        chk == CacheCheck(store, p, path)
    IN  IF chk = "KeyError" THEN Raised(store, <<>>, path, "KeyError")
        ELSE IF chk = "hit" THEN Returned(store, <<>>, path, TRUE)
        ELSE
        LET z1 == IF chk = "stale" THEN DelItem(store, path) ELSE store
            ops1 == IF chk = "stale" THEN <<"delete">> ELSE <<>>
            sel == SelectCodec(p)
            chunks == get_chunks_for_shape(XShape).val
        IN  IF ~sel.ok THEN Raised(z1, ops1, path, sel.err)
            ELSE IF ~CodecAccepts(sel.codec) /\ ext.reject = "init"
            THEN Raised(z1, ops1, path, "ValueError: codec")
            ELSE IF ~CodecAccepts(sel.codec)
            THEN Raised(CreateDataset(z1, path, sel.codec, chunks, FALSE, p),
                        ops1 \o <<"create_dataset">>, path, "ValueError: codec")
            ELSE
            LET z2 == CreateDataset(z1, path, sel.codec, chunks, TRUE, p)
                writes == AttrWrites(p, sel.codec, ext)
                z3 == (path :> [z2[path] EXCEPT !.attrs = WriteAttrs(@, writes)]) @@ z2
            IN  Returned(z3, ops1 \o <<"create_dataset">> \o OpsOfWrites(writes),
                         path, FALSE)

(***************************************************************************)
(* Spec: a caller makes up to MaxCalls calls of do_compress on one store   *)
(***************************************************************************)
Flags(t, r, s) ==
    [estimate_compression_time |-> t, compute_compression_ratio |-> r,
     compute_residual_stdev |-> s]

Args(alg, method, target, seg, zstd, zlib, flags) ==
    [lowcut |-> 300, highcut |-> 6000, alg |-> alg,
     compression_method |-> method, target_residual_stdev |-> target,
     segment_length_sec |-> seg, zstd_level |-> zstd, zlib_level |-> zlib,
     estimate_compression_time |-> flags.estimate_compression_time,
     compute_compression_ratio |-> flags.compute_compression_ratio,
     compute_residual_stdev |-> flags.compute_residual_stdev]

ValidAlgs == {"qfc", "qtc"}
ValidMethods == {"zstd", "zlib"}
AllAlgs == ValidAlgs \cup {"raw"}
AllMethods == ValidMethods \cup {"lz4"}
Targets == {0, 1}
SegmentLengths == {100, 200}

IsValid(p) == p.alg \in ValidAlgs /\ p.compression_method \in ValidMethods

\* the argument tuples a caller passes
ValidArgs ==
    {Args(a, m, t, s, 15, 6, f) :
        a \in ValidAlgs, m \in ValidMethods, t \in Targets, s \in SegmentLengths,
        f \in {Flags(TRUE, TRUE, TRUE), Flags(FALSE, FALSE, FALSE)}}
    \cup
    {Args(a, m, t, 100, 3, 3, Flags(FALSE, TRUE, FALSE)) :
        a \in ValidAlgs, m \in ValidMethods, t \in Targets}

InvalidArgs ==
    {Args(a, m, t, 100, 15, 6, Flags(TRUE, TRUE, TRUE)) :
        a \in AllAlgs, m \in AllMethods, t \in Targets} \ ValidArgs

CallArgs == ValidArgs \cup InvalidArgs

\* what the collaborators can hand back during a call with arguments p
ExtChoices(p, rejects) ==
    LET nchunks == NumChunks(XShape, get_chunks_for_shape(XShape).val)
    IN  [resid_excess : IF p.compute_residual_stdev /\ p.target_residual_stdev > 0
                           /\ IsValid(p)
                        THEN {0, 1} ELSE {0},
         elapsed_times : {<<1, 2, 3>>},
         zgroup_bytes : {24},
         zarray_bytes : {400},
         chunk_bytes : {[i \in 1..nchunks |-> 1000000]},
         reject : {rejects}]

NoCall == [made |-> FALSE]

\* the record of one call: its arguments, what it found at its key, what it
\* did to the store and what it gave back
CallRecord(store, p, r) ==
    [made |-> TRUE, p |-> p, path |-> r.path,
     existed |-> Contains(store, r.path),
     found_by |-> IF Contains(store, r.path)
                  THEN <<store[r.path].created_by>> ELSE <<>>,
     found_attrs |-> IF Contains(store, r.path)
                     THEN store[r.path].attrs ELSE EmptyAttrs,
     ops |-> r.ops, outcome |-> r.outcome, err |-> r.err, hit |-> r.hit,
     attrs |-> r.attrs]

SweepIdle == [run |-> 0, ai |-> 1, mi |-> 1, ti |-> 1, results |-> <<>>,
              calls |-> <<>>, saved |-> <<>>, pc |-> "idle"]
PathIdle == [a |-> <<>>, b |-> <<>>, ka |-> "", kb |-> "", done |-> FALSE]
ChunksIdle == [shape |-> <<>>, result |-> ChunksErr("none"), done |-> FALSE]
RemoveIdle == [zarr_path |-> <<>>, fs0 |-> {}, fs |-> {}, local0 |-> {},
               local |-> {}, answer |-> "", asked |-> FALSE,
               outcome |-> "none", done |-> FALSE]
SizeIdle == [store |-> EmptyStore, total |-> None, pc |-> "idle"]
StepsIdle == [seeds |-> 0, base |-> EmptyStore, c |-> <<>>]
TimingIdle == [done |-> FALSE]

Init ==
    /\ z = EmptyStore
    /\ ncalls = 0
    /\ last = NoCall
    /\ prev = NoCall
    /\ sw = SweepIdle
    /\ pk = PathIdle
    /\ ck = ChunksIdle
    /\ rm = RemoveIdle
    /\ ms = SizeIdle
    /\ lib \in {"init", "encode"}
    /\ st = StepsIdle
    /\ tm = TimingIdle

DoCompress(p, ext) ==
    /\ ncalls < MaxCalls
    /\ LET r == do_compress(z, p, ext)
       IN  /\ z' = r.z
           /\ last' = CallRecord(z, p, r)
    /\ prev' = last
    /\ ncalls' = ncalls + 1
    /\ UNCHANGED <<sw, pk, ck, rm, ms, lib, st, tm>>

Next == \E p \in CallArgs : \E ext \in ExtChoices(p, lib) : DoCompress(p, ext)

Spec == Init /\ [][Next]_vars

(***************************************************************************)
(* Properties of do_compress under Spec                                    *)
(***************************************************************************)
SameArgsTwice == last.made /\ prev.made /\ last.p = prev.p

Degenerate(p) == p.alg = "qfc" /\ p.target_residual_stdev = 0

NoStoreOps(c) == c.ops = <<>>

Recreated(c) ==
    /\ Len(c.ops) >= 2
    /\ c.ops[1] = "delete"
    /\ c.ops[2] = "create_dataset"
    /\ ~c.hit
    /\ c.outcome = "returned"
    /\ Contains(z, c.path)
    /\ z[c.path].created_by = c.p

\* C1 as stated: for every argument tuple, the second of two consecutive
\* calls with identical arguments makes no delete, no create_dataset and no
\* attribute write, and returns the artifact with the metadata the first
\* call returned.
C1_IdempotentForEveryTuple ==
    (SameArgsTwice /\ prev.outcome = "returned")
        => /\ NoStoreOps(last)
           /\ last.outcome = "returned"
           /\ last.attrs = prev.attrs

\* C1 amended: the same for every argument tuple other than alg = "qfc" with
\* target_residual_stdev = 0: the second call makes no store operation, and
\* when the first call returned an artifact the second one returns it from
\* the cache with identical metadata.
C1_IdempotentUnlessDegenerate ==
    (SameArgsTwice /\ ~Degenerate(last.p))
        => /\ NoStoreOps(last)
           /\ (prev.outcome = "returned"
                 => /\ last.outcome = "returned"
                    /\ last.hit
                    /\ last.attrs = prev.attrs
                    /\ z[last.path].attrs = prev.attrs)

C1_Witness ==
    /\ SameArgsTwice
    /\ ~Degenerate(last.p)
    /\ prev.outcome = "returned"
    /\ ~prev.hit
    /\ last.hit
    /\ last.p.estimate_compression_time
    /\ last.p.target_residual_stdev > 0

\* C2: a call with alg = "qfc" and target_residual_stdev = 0 that finds an
\* artifact at its key never answers from the cache: it deletes the artifact
\* and creates a new one at the same key.
C2_ZeroTargetNeverReused ==
    (last.made /\ Degenerate(last.p) /\ last.existed) => Recreated(last)

C2_Witness ==
    /\ last.made /\ Degenerate(last.p) /\ last.existed
    /\ last.found_attrs = last.attrs
    /\ last.ops[1] = "delete"

\* the segment length the artifact found at the key was created with
FoundOtherSegment(c) ==
    /\ c.made
    /\ c.existed
    /\ c.p.target_residual_stdev > 0
    /\ c.found_by[1].segment_length_sec # c.p.segment_length_sec

\* C3 as stated: a call with a positive target that finds at its key an
\* artifact created with another segment_length_sec deletes it and creates a
\* new one.
C3_SegmentChangeRecreates ==
    FoundOtherSegment(last) => Recreated(last)

\* C3 amended: the same for alg = "qfc" with a compression method the codec
\* knows (zstd, zlib); for alg = "qtc" the segment length is neither stored
\* nor compared and the call is answered from the cache.
C3_SegmentChangeRecreatesQfc ==
    /\ (FoundOtherSegment(last) /\ last.p.alg = "qfc"
          /\ last.p.compression_method \in ValidMethods)
         => Recreated(last)
    /\ (FoundOtherSegment(last) /\ last.p.alg = "qtc"
          /\ last.p.compression_method \in ValidMethods)
         => (last.hit /\ NoStoreOps(last))

C3_Witness ==
    /\ FoundOtherSegment(last)
    /\ last.p.alg = "qfc"
    /\ last.ops[1] = "delete"
    /\ z[last.path].attrs["segment_length_sec"] = last.p.segment_length_sec

\* C5: every call with an algorithm outside {qfc, qtc} or a compression
\* method outside {zstd, zlib}, for a zero or a positive target, raises an
\* error, and unless the error comes out of the codec library (whose
\* behaviour the repository does not decide) it is raised before any store
\* operation is made.
C5_InvalidConfigurationFailsFast ==
    (last.made /\ ~IsValid(last.p))
        => /\ last.outcome = "raised"
           /\ (last.err # "ValueError: codec" => NoStoreOps(last))

(***************************************************************************)
(* SpecSweep: the sweep loop of the __main__ block, run MaxRuns times over *)
(* the same store                                                          *)
(***************************************************************************)
algs == <<"qfc", "qtc">>
compression_methods == <<"zstd", "zlib">>
\* [0, 1, ..., 8] in the source; here 0..MaxTargetLevel
target_residual_stdevs == [i \in 1..(MaxTargetLevel + 1) |-> i - 1]
main_zlib_level == 6
main_zstd_level == 15
main_lowcut == 300
main_highcut == 6000

\* the keyword arguments of the do_compress call of lines 552-565
SweepArgs(alg, compression_method, target_resid_stdev) ==
    [lowcut |-> main_lowcut, highcut |-> main_highcut, alg |-> alg,
     compression_method |-> compression_method,
     target_residual_stdev |-> target_resid_stdev,
     segment_length_sec |-> 100,
     zstd_level |-> main_zstd_level, zlib_level |-> main_zlib_level,
     estimate_compression_time |-> TRUE, compute_compression_ratio |-> TRUE,
     compute_residual_stdev |-> TRUE]

\* lines 566-581: the record appended for the dataset ds
MeasurementRecord(alg, compression_method, attrs) ==
    LET compression_time_sec == GetAttr(attrs, "compression_time_sec")
        compression_ratio == GetAttr(attrs, "compression_ratio")
        resid_stdev == GetAttr(attrs, "target_residual_stdev")
    IN  [alg |-> alg,
         compression_method |-> compression_method,
         target_residual_stdev |-> resid_stdev,
         residual_stdev |-> resid_stdev,
         compression_ratio |-> compression_ratio,
         compression_time_sec |-> compression_time_sec,
         lowcut |-> main_lowcut,
         highcut |-> main_highcut,
         compression_level |-> IF compression_method = "zlib"
                               THEN main_zlib_level ELSE main_zstd_level]

\* the loop indices after one more iteration of the innermost loop
NextIndices_skiplast(ai, mi, ti) ==
    IF ti + 1 < Len(target_residual_stdevs) THEN <<ai, mi, ti + 1>>
    ELSE IF mi < Len(compression_methods) THEN <<ai, mi + 1, 1>>
    ELSE <<ai + 1, 1, 1>>

NextIndices(ai, mi, ti) ==
    IF ti < Len(target_residual_stdevs) THEN <<ai, mi, ti + 1>>
    ELSE IF mi < Len(compression_methods) THEN <<ai, mi + 1, 1>>
    ELSE <<ai + 1, 1, 1>>

InitSweep ==
    /\ z = EmptyStore
    /\ ncalls = 0
    /\ last = NoCall
    /\ prev = NoCall
    /\ sw = SweepIdle
    /\ pk = PathIdle
    /\ ck = ChunksIdle
    /\ rm = RemoveIdle
    /\ ms = SizeIdle
    /\ lib = "init"
    /\ st = StepsIdle
    /\ tm = TimingIdle

\* line 548: results = []
SweepStart ==
    /\ sw.pc \in {"idle", "saved"}
    /\ sw.run < MaxRuns
    /\ sw' = [sw EXCEPT !.run = @ + 1, !.ai = 1, !.mi = 1, !.ti = 1,
                        !.results = <<>>, !.calls = <<>>, !.pc = "loop"]
    /\ UNCHANGED <<z, ncalls, last, prev, pk, ck, rm, ms, lib, st, tm>>

\* lines 549-581: one iteration, the call and the append; an error raised by
\* do_compress ends the program
SweepIteration ==
    /\ sw.pc = "loop"
    /\ sw.ai <= Len(algs)
    /\ LET alg == algs[sw.ai]
           compression_method == compression_methods[sw.mi]
           target_resid_stdev == target_residual_stdevs[sw.ti]
           p == SweepArgs(alg, compression_method, target_resid_stdev)
           nxt == NextIndices(sw.ai, sw.mi, sw.ti)
       IN  \E ext \in ExtChoices(p, lib) :
             LET r == do_compress(z, p, ext)
             IN  /\ z' = r.z
                 /\ last' = CallRecord(z, p, r)
                 /\ sw' = IF r.outcome = "returned"
                          THEN [sw EXCEPT
                                  !.results = Append(@, MeasurementRecord(alg,
                                                  compression_method, r.attrs)),
                                  !.calls = Append(@, [p |-> p, attrs |-> r.attrs,
                                                       hit |-> r.hit]),
                                  !.ai = nxt[1], !.mi = nxt[2], !.ti = nxt[3]]
                          ELSE [sw EXCEPT !.pc = "failed"]
    /\ prev' = last
    /\ ncalls' = ncalls + 1
    /\ UNCHANGED <<pk, ck, rm, ms, lib, st, tm>>

\* line 584: save_results_to_store(results, zarr_path)
SweepSave ==
    /\ sw.pc = "loop"
    /\ sw.ai > Len(algs)
    /\ sw' = [sw EXCEPT !.saved = sw.results, !.pc = "saved"]
    /\ UNCHANGED <<z, ncalls, last, prev, pk, ck, rm, ms, lib, st, tm>>

NextSweep ==
    \/ SweepStart
    \/ SweepIteration
    \/ SweepSave

SpecSweep == InitSweep /\ [][NextSweep]_vars

\* the combinations in loop order: algorithm outer, coder middle, target inner
Combination(i) ==
    LET nt == Len(target_residual_stdevs)
        nm == Len(compression_methods)
    IN  <<algs[((i - 1) \div (nt * nm)) + 1],
          compression_methods[(((i - 1) \div nt) % nm) + 1],
          target_residual_stdevs[((i - 1) % nt) + 1]>>

NumCombinations ==
    Len(algs) * Len(compression_methods) * Len(target_residual_stdevs)

\* C7: in every record of the sweep the residual_stdev field is the
\* residual_stdev metric of the artifact that do_compress returned for the
\* combination, and the target_residual_stdev field is the requested target.
C7_RecordCarriesMeasuredResidual ==
    \A i \in 1..Len(sw.results) :
        /\ sw.results[i].residual_stdev = sw.calls[i].attrs["residual_stdev"]
        /\ sw.results[i].target_residual_stdev
              = sw.calls[i].p.target_residual_stdev

\* C8: the i-th call and the i-th record of a run belong to the i-th
\* combination of algorithms x coders x target levels; every call has the
\* three metric flags set and the fixed band and effort levels; and a
\* finished run has made one call and one record per combination.
C8_OneCallAndRecordPerCombination ==
    /\ Len(sw.calls) = Len(sw.results)
    /\ Len(sw.calls) <= NumCombinations
    /\ \A i \in 1..Len(sw.calls) :
          /\ sw.calls[i].p = SweepArgs(Combination(i)[1], Combination(i)[2],
                                       Combination(i)[3])
          /\ sw.calls[i].p.estimate_compression_time
          /\ sw.calls[i].p.compute_compression_ratio
          /\ sw.calls[i].p.compute_residual_stdev
          /\ sw.results[i].alg = Combination(i)[1]
          /\ sw.results[i].compression_method = Combination(i)[2]
    /\ (sw.pc = "saved"
          => /\ Len(sw.saved) = NumCombinations
             /\ sw.saved = sw.results
             /\ Len(sw.calls) = NumCombinations)
    /\ (sw.pc = "loop" /\ sw.ai <= Len(algs)
          => Len(sw.calls) = (sw.ai - 1) * Len(compression_methods)
                                 * Len(target_residual_stdevs)
                             + (sw.mi - 1) * Len(target_residual_stdevs)
                             + (sw.ti - 1))

C8_Witness ==
    /\ sw.pc = "saved"
    /\ sw.run = MaxRuns
    /\ Len(sw.saved) = NumCombinations
    /\ sw.saved[NumCombinations].alg = "qtc"
    /\ sw.saved[NumCombinations].compression_method = "zlib"

(***************************************************************************)
(* SpecPath: get_compressed_path applied to two argument tuples            *)
(***************************************************************************)
\* the arguments of do_compress that enter the key
PathArgs ==
    [lowcut : {PyInt(300), PyFloat(300)},
     highcut : {PyInt(6000), PyInt(0)},
     alg : {"qfc", "qtc"},
     compression_method : {"zstd", "zlib", "lz4"},
     target_residual_stdev : {PyInt(0), PyInt(1), PyFloat(1)},
     zstd_level : {1, 15},
     zlib_level : {1, 6}]

\* the tuple the key is a function of
KeyTuple(a) ==
    <<a.lowcut, a.highcut, a.alg, a.compression_method, a.target_residual_stdev,
      SelectedLevel(a.compression_method, a.zstd_level, a.zlib_level)>>

\* lines 265-276
PathOf(a) ==
    get_compressed_path(a.lowcut, a.highcut, a.alg, a.compression_method,
        a.target_residual_stdev,
        SelectedLevel(a.compression_method, a.zstd_level, a.zlib_level))

InitPath ==
    /\ z = EmptyStore
    /\ ncalls = 0
    /\ last = NoCall
    /\ prev = NoCall
    /\ sw = SweepIdle
    /\ pk \in [a : PathArgs, b : PathArgs, ka : {""}, kb : {""}, done : {FALSE}]
    /\ ck = ChunksIdle
    /\ rm = RemoveIdle
    /\ ms = SizeIdle
    /\ lib = "init"
    /\ st = StepsIdle
    /\ tm = TimingIdle

ComputePaths ==
    /\ ~pk.done
    /\ pk' = [pk EXCEPT !.ka = PathOf(pk.a), !.kb = PathOf(pk.b), !.done = TRUE]
    /\ UNCHANGED <<z, ncalls, last, prev, sw, ck, rm, ms, lib, st, tm>>

NextPath == ComputePaths

SpecPath == InitPath /\ [][NextPath]_vars

\* C4: two argument tuples get the same key exactly when they agree in band,
\* algorithm, coder, target level and effort level of the selected coder.
C4_KeyInjective ==
    pk.done => ((pk.ka = pk.kb) <=> (KeyTuple(pk.a) = KeyTuple(pk.b)))

C4_Witness ==
    /\ pk.done
    /\ pk.a.compression_method = "zstd" /\ pk.b.compression_method = "zstd"
    /\ pk.a.zstd_level # pk.b.zstd_level
    /\ pk.a.zlib_level = pk.b.zlib_level
    /\ pk.a.lowcut = pk.b.lowcut /\ pk.a.highcut = pk.b.highcut
    /\ pk.a.alg = pk.b.alg
    /\ pk.a.target_residual_stdev = pk.b.target_residual_stdev
    /\ pk.ka # pk.kb

(***************************************************************************)
(* SpecChunks: get_chunks_for_shape applied to a shape                     *)
(***************************************************************************)
ChannelCounts == (0..MaxChannels) \cup {target_num_entries, target_num_entries + 1}

\* row counts around 0, n, 2n and 3n for n = target_num_entries // channels
RowCounts(c) ==
    LET n == IF c = 0 THEN 0 ELSE target_num_entries \div c
    IN  {t \in {k * n + d : k \in 0..3, d \in (0 - MaxSlack)..MaxSlack} : t >= 0}

Shapes ==
    {<<t, c>> : c \in ChannelCounts, t \in UNION {RowCounts(d) : d \in ChannelCounts}}
    \cup {<<>>, <<5>>, <<5, 2, 3>>}

InitChunks ==
    /\ z = EmptyStore
    /\ ncalls = 0
    /\ last = NoCall
    /\ prev = NoCall
    /\ sw = SweepIdle
    /\ pk = PathIdle
    /\ ck \in [shape : Shapes, result : {ChunksErr("none")}, done : {FALSE}]
    /\ rm = RemoveIdle
    /\ ms = SizeIdle
    /\ lib = "init"
    /\ st = StepsIdle
    /\ tm = TimingIdle

ComputeChunks ==
    /\ ~ck.done
    /\ ck' = [ck EXCEPT !.result = get_chunks_for_shape(ck.shape), !.done = TRUE]
    /\ UNCHANGED <<z, ncalls, last, prev, sw, pk, rm, ms, lib, st, tm>>

NextChunks == ComputeChunks

SpecChunks == InitChunks /\ [][NextChunks]_vars

IsPrefix(pre, path) ==
    Len(pre) <= Len(path) /\ SubSeq(path, 1, Len(pre)) = pre

\* zarr_path.startswith("r2://")
StartsWithR2(path) == Len(path) >= 3 /\ path[1] = "r2:" /\ path[2] = ""

\* zarr_path.startswith("r2://neurosift/scratch/")
StartsWithScratch(path) ==
    Len(path) >= 5 /\ SubSeq(path, 1, 4) = <<"r2:", "", "neurosift", "scratch">>

\* "/".join(zarr_path.split("/")[2:])
StripScheme(path) == SubSeq(path, 3, Len(path))

\* fs.exists(pp): an object at pp or below it
FsExists(fs, pp) ==
    \E o \in fs : IsPrefix(IF pp[Len(pp)] = "" THEN SubSeq(pp, 1, Len(pp) - 1) ELSE pp, o)

\* fs.rm(pp, recursive=True)
FsRm(fs, pp) ==
    {o \in fs : ~IsPrefix(IF pp[Len(pp)] = "" THEN SubSeq(pp, 1, Len(pp) - 1) ELSE pp, o)}

RemoveOutcome(fs, local, outcome, asked) ==
    [fs |-> fs, local |-> local, outcome |-> outcome, asked |-> asked]

remove_zarr_store_noscratchcheck(zarr_path, fs, local, answer) ==
    IF StartsWithR2(zarr_path)
    THEN LET pp == StripScheme(zarr_path)
         IN  IF ~FsExists(fs, pp)
             THEN RemoveOutcome(fs, local, "returned", FALSE)
             ELSE IF answer # "y"
             THEN RemoveOutcome(fs, local, "Exception: User did not confirm removal", TRUE)
             ELSE RemoveOutcome(FsRm(fs, pp), local, "returned", TRUE)
    ELSE IF zarr_path \in local
         THEN RemoveOutcome(fs, local \ {zarr_path}, "returned", FALSE)
         ELSE RemoveOutcome(fs, local, "returned", FALSE)

remove_zarr_store(zarr_path, fs, local, answer) ==
    IF StartsWithR2(zarr_path)
    THEN IF ~StartsWithScratch(zarr_path)
         THEN RemoveOutcome(fs, local, "Exception: Cannot remove zarr store", FALSE)
         ELSE LET pp == StripScheme(zarr_path)
              IN  IF ~IsPrefix(<<"neurosift", "scratch">>, pp) \/ Len(pp) < 3
                  THEN RemoveOutcome(fs, local, "AssertionError", FALSE)
                  ELSE IF ~FsExists(fs, pp)
                  THEN RemoveOutcome(fs, local, "returned", FALSE)
                  ELSE IF answer # "y"
                  THEN RemoveOutcome(fs, local,
                                     "Exception: User did not confirm removal", TRUE)
                  ELSE RemoveOutcome(FsRm(fs, pp), local, "returned", TRUE)
    ELSE IF zarr_path \in local
         THEN RemoveOutcome(fs, local \ {zarr_path}, "returned", FALSE)
         ELSE RemoveOutcome(fs, local, "returned", FALSE)

RemotePaths ==
    {<<"r2:", "", "neurosift", "scratch", "qfc_benchmark", "test1.zarr">>,
     <<"r2:", "", "neurosift", "scratch", "">>,
     <<"r2:", "", "neurosift", "scratch">>,
     <<"r2:", "", "neurosift", "scratchpad", "test1.zarr">>,
     <<"r2:", "", "neurosift", "dandi", "test1.zarr">>,
     <<"r2:", "", "other", "scratch", "test1.zarr">>}

LocalPaths == {<<"test1.zarr">>, <<"", "tmp", "test1.zarr">>}

RemoteObjects ==
    {<<"neurosift", "scratch", "qfc_benchmark", "test1.zarr", ".zgroup">>,
     <<"neurosift", "scratch", "other.zarr", ".zgroup">>,
     <<"neurosift", "scratchpad", "test1.zarr", ".zgroup">>,
     <<"neurosift", "dandi", "test1.zarr", ".zgroup">>,
     <<"other", "scratch", "test1.zarr", ".zgroup">>}

Answers == {"y", "n", "Y", ""}

InitRemove ==
    /\ z = EmptyStore
    /\ ncalls = 0
    /\ last = NoCall
    /\ prev = NoCall
    /\ sw = SweepIdle
    /\ pk = PathIdle
    /\ ck = ChunksIdle
    /\ \E path \in RemotePaths \cup LocalPaths, fs \in SUBSET RemoteObjects,
          local \in SUBSET LocalPaths :
          rm = [zarr_path |-> path, fs0 |-> fs, fs |-> fs, local0 |-> local,
                local |-> local, answer |-> "", asked |-> FALSE,
                outcome |-> "none", done |-> FALSE]
    /\ ms = SizeIdle
    /\ lib = "init"
    /\ st = StepsIdle
    /\ tm = TimingIdle

RemoveZarrStore(answer) ==
    /\ ~rm.done
    /\ LET r == remove_zarr_store(rm.zarr_path, rm.fs, rm.local, answer)
       IN  rm' = [rm EXCEPT !.fs = r.fs, !.local = r.local,
                            !.outcome = r.outcome, !.asked = r.asked,
                            !.answer = IF r.asked THEN answer ELSE "",
                            !.done = TRUE]
    /\ UNCHANGED <<z, ncalls, last, prev, sw, pk, ck, ms, lib, st, tm>>

NextRemove == \E answer \in Answers : RemoveZarrStore(answer)

SpecRemove == InitRemove /\ [][NextRemove]_vars

\* the designated scratch namespace: below r2://neurosift/scratch/
InScratchNamespace(path) ==
    /\ Len(path) >= 5
    /\ path[1] = "r2:" /\ path[2] = "" /\ path[3] = "neurosift"
    /\ path[4] = "scratch"

IsRemote(path) == Len(path) >= 3 /\ path[1] = "r2:" /\ path[2] = ""

\* C10: a finished remove_zarr_store has deleted remote objects only for a
\* path inside the scratch namespace and after the answer "y"; for a remote
\* path outside the namespace it has raised and deleted nothing; after any
\* other answer it has raised the did-not-confirm error and deleted nothing.
C10_RemoteRemovalGuarded ==
    rm.done =>
        /\ (rm.fs # rm.fs0 =>
              /\ InScratchNamespace(rm.zarr_path)
              /\ rm.asked /\ rm.answer = "y")
        /\ (IsRemote(rm.zarr_path) /\ ~InScratchNamespace(rm.zarr_path) =>
              /\ rm.outcome = "Exception: Cannot remove zarr store"
              /\ rm.fs = rm.fs0 /\ rm.local = rm.local0)
        /\ (rm.asked /\ rm.answer # "y" =>
              /\ rm.outcome = "Exception: User did not confirm removal"
              /\ rm.fs = rm.fs0 /\ rm.local = rm.local0)
        /\ (IsRemote(rm.zarr_path) => rm.local = rm.local0)

C10_Witness ==
    /\ rm.done
    /\ InScratchNamespace(rm.zarr_path)
    /\ rm.asked /\ rm.answer = "y"
    /\ rm.fs # rm.fs0
    /\ rm.outcome = "returned"

(***************************************************************************)
(* SpecSize: a memory store is filled as in lines 364-372 and measured     *)
(***************************************************************************)
EntryBytes == 1..MaxChunkBytes

InitSize ==
    /\ z = EmptyStore
    /\ ncalls = 0
    /\ last = NoCall
    /\ prev = NoCall
    /\ sw = SweepIdle
    /\ pk = PathIdle
    /\ ck = ChunksIdle
    /\ rm = RemoveIdle
    /\ ms = SizeIdle
    /\ lib = "init"
    /\ st = StepsIdle
    /\ tm = TimingIdle

\* zarr.open(store=memory_store, mode="w")
SizeOpen(b) ==
    /\ ms.pc = "idle"
    /\ ms' = [ms EXCEPT !.store = MemOpenGroup(b), !.pc = "group"]
    /\ UNCHANGED <<z, ncalls, last, prev, sw, pk, ck, rm, lib, st, tm>>

\* z_memory.create_dataset("tmp", ...)
SizeCreateDataset(b, chunk_bytes) ==
    /\ ms.pc = "group"
    /\ ms' = [ms EXCEPT !.store = MemCreateDataset(ms.store, b, chunk_bytes),
                        !.pc = "dataset"]
    /\ UNCHANGED <<z, ncalls, last, prev, sw, pk, ck, rm, lib, st, tm>>

\* an attribute written on the dataset: zarr stores it under tmp/.zattrs
SizeSetAttr(b) ==
    /\ ms.pc = "dataset"
    /\ KeyTmpZAttrs \notin DOMAIN ms.store
    /\ ms' = [ms EXCEPT !.store = (KeyTmpZAttrs :> b) @@ ms.store]
    /\ UNCHANGED <<z, ncalls, last, prev, sw, pk, ck, rm, lib, st, tm>>

\* compressed_bytes = compute_size_of_zarr_store_excluding_meta(memory_store)
SizeCompute ==
    /\ ms.pc \in {"group", "dataset"}
    /\ ms' = [ms EXCEPT !.total = compute_size_of_zarr_store_excluding_meta(ms.store),
                        !.pc = "measured"]
    /\ UNCHANGED <<z, ncalls, last, prev, sw, pk, ck, rm, lib, st, tm>>

NextSize ==
    \/ \E b \in EntryBytes : SizeOpen(b)
    \/ \E b \in EntryBytes, n \in 0..MaxChunks :
          \E chunk_bytes \in [1..n -> EntryBytes] : SizeCreateDataset(b, chunk_bytes)
    \/ \E b \in EntryBytes : SizeSetAttr(b)
    \/ SizeCompute

SpecSize == InitSize /\ [][NextSize]_vars

\* the data chunks of the dataset tmp
ChunkKeys(store) == {k \in DOMAIN store : \E i \in 0..9 : k = KeyTmpChunk(i)}

\* C6: the size computed for a store is the sum of the byte sizes of its data
\* chunks; the group descriptor and the array descriptor and attribute
\* entries under the dataset's path are left out.
C6_SizeIsChunkBytesOnly ==
    ms.pc = "measured" => ms.total = SumBytes(ms.store, ChunkKeys(ms.store))

(***************************************************************************)
(* The codec of a zero-target call, under Spec                             *)
(***************************************************************************)
\* the level a pure entropy codec encodes with, or None for another codec
EncodedLevel(codec) ==
    IF codec.kind \in {"Blosc", "Zlib"} THEN codec.level ELSE None

\* the level the artifact's metadata names for its coder
RecordedLevel(attrs, compression_method) ==
    IF compression_method = "zstd" THEN GetAttr(attrs, "zstd_level")
    ELSE GetAttr(attrs, "zlib_level")

\* C11: a call with target_residual_stdev = 0 that creates the artifact
\* encodes it with a pure entropy codec of the requested coder at exactly
\* the requested level of that coder, and the level written to the
\* artifact's metadata is the level the data was encoded with.
C11_ZeroTargetUsesRequestedLevel ==
    (/\ last.made
     /\ IsValid(last.p)
     /\ last.p.target_residual_stdev = 0
     /\ last.outcome = "returned"
     /\ ~last.hit)
        => LET codec == z[last.path].codec
               requested == SelectedLevel(last.p.compression_method,
                                          last.p.zstd_level, last.p.zlib_level)
           IN  /\ codec.kind \in {"Blosc", "Zlib"}
               /\ codec.method = last.p.compression_method
               /\ EncodedLevel(codec) = requested
               /\ RecordedLevel(last.attrs, last.p.compression_method)
                      = EncodedLevel(codec)

(***************************************************************************)
(* SpecTiming: one call, made with and without estimate_compression_time   *)
(* on the same store with the same results of the collaborators            *)
(***************************************************************************)
ElapsedChoices == {<<1, 2, 3>>, <<2, 2, 2>>, <<1, 1, 5>>}

TimingExt(p) ==
    {[e EXCEPT !.elapsed_times = t] : e \in ExtChoices(p, "init"), t \in ElapsedChoices}

\* the stores the call can find: empty, or left by one earlier call
TimingStores ==
    {EmptyStore} \cup
    {do_compress(EmptyStore, q, CHOOSE e \in ExtChoices(q, "init") : TRUE).z :
        q \in ValidArgs}

InitTiming ==
    /\ z = EmptyStore
    /\ ncalls = 0
    /\ last = NoCall
    /\ prev = NoCall
    /\ sw = SweepIdle
    /\ pk = PathIdle
    /\ ck = ChunksIdle
    /\ rm = RemoveIdle
    /\ ms = SizeIdle
    /\ lib = "init"
    /\ st = StepsIdle
    /\ \E p \in ValidArgs, store \in TimingStores :
          \E ext \in TimingExt(p) :
             tm = [done |-> FALSE, p |-> p, ext |-> ext, store |-> store]

WithTiming(p, flag) == [p EXCEPT !.estimate_compression_time = flag]

TimingCompare ==
    /\ ~tm.done
    /\ LET with == do_compress(tm.store, WithTiming(tm.p, TRUE), tm.ext)
           without == do_compress(tm.store, WithTiming(tm.p, FALSE), tm.ext)
       IN  tm' = [done |-> TRUE, p |-> tm.p, ext |-> tm.ext, store |-> tm.store,
                  with |-> with,
                  with_encodes |-> EncodesOf(WithTiming(tm.p, TRUE), with),
                  without |-> without,
                  without_encodes |-> EncodesOf(WithTiming(tm.p, FALSE), without)]
    /\ UNCHANGED <<z, ncalls, last, prev, sw, pk, ck, rm, ms, lib, st>>

NextTiming == TimingCompare

SpecTiming == InitTiming /\ [][NextTiming]_vars

Range(f) == {f[i] : i \in DOMAIN f}

\* what is persisted for a dataset apart from its attributes
PersistedData(ds) == [codec |-> ds.codec, chunks |-> ds.chunks, written |-> ds.written]

\* C15: a creating call with estimate_compression_time set makes exactly
\* three encodes more than the same call without it, each into a memory
\* store of its own and none into the artifact store; the data persisted at
\* the key and everything else in the store are the same, and the artifact's
\* metadata differs only by compression_time_sec, the mean of the three
\* elapsed times.  A call answered from the cache is the same either way.
C15_TimingIsMeasurementOnly ==
    tm.done =>
        /\ tm.with.outcome = tm.without.outcome
        /\ tm.with.hit = tm.without.hit
        /\ DOMAIN tm.with.z = DOMAIN tm.without.z
        /\ \A k \in DOMAIN tm.with.z \ {tm.with.path} : tm.with.z[k] = tm.without.z[k]
        /\ (tm.with.outcome = "returned" /\ tm.with.hit) => tm.with = tm.without
        /\ (tm.with.outcome = "returned" /\ ~tm.with.hit) =>
              LET extra == Range(tm.with_encodes) \ Range(tm.without_encodes)
                  e == tm.ext.elapsed_times
              IN  /\ Len(tm.with_encodes) = Len(tm.without_encodes) + 3
                  /\ Cardinality(extra) = 3
                  /\ \A x \in extra : x.fresh /\ x.store # "z"
                  /\ PersistedData(tm.with.z[tm.with.path])
                        = PersistedData(tm.without.z[tm.with.path])
                  /\ "compression_time_sec" \notin DOMAIN tm.without.attrs
                  /\ tm.with.attrs
                        = SetAttr(tm.without.attrs, "compression_time_sec",
                                  <<e[1] + e[2] + e[3], 3>>)
                  /\ tm.with.z[tm.with.path].attrs = tm.with.attrs

C15_Witness ==
    /\ tm.done
    /\ tm.with.outcome = "returned" /\ ~tm.with.hit
    /\ tm.ext.elapsed_times = <<1, 1, 5>>
    /\ tm.p.compute_compression_ratio
    /\ tm.with.ops[1] = "delete"
    /\ tm.with.attrs["compression_time_sec"] = <<7, 3>>

(***************************************************************************)
(* do_compress one store operation at a time                               *)
(*                                                                         *)
(* A caller is a process that runs do_compress on the shared store (the    *)
(* store is a directory or an r2:// bucket, open to any number of          *)
(* programs).  Its steps are the store operations of the function in the   *)
(* order of the code: the cache check (lines 279-290), the delete (line    *)
(* 293), create_dataset (line 338) and one step per attribute write (lines *)
(* 360-398).  Nothing in the function locks the store or the key.          *)
(***************************************************************************)
Procs == {"a", "b"}

InputKeys == {"raw", get_filtered_path(PyInt(main_lowcut), PyInt(main_highcut))}

\* the datasets written by initiate_benchmark and do_filter
InputDataset(name) ==
    [attrs |-> EmptyAttrs, codec |-> NoCodec,
     chunks |-> get_chunks_for_shape(XShape).val, written |-> TRUE,
     created_by |-> name]

BaseStore == [k \in InputKeys |-> InputDataset(k)]

StepArgs ==
    {Args(a, "zstd", t, s, 15, 6, Flags(FALSE, FALSE, TRUE)) :
        a \in ValidAlgs, t \in Targets, s \in SegmentLengths}

\* the stores the callers start on: the inputs only, or the inputs and the
\* artifact of one earlier, completed call
StepStores ==
    {BaseStore} \cup
    {do_compress(BaseStore, q, e).z : q \in StepArgs, e \in UNION {ExtChoices(x, "init") : x \in StepArgs}}

IdleCaller ==
    [pc |-> "idle", p |-> <<>>, ext |-> <<>>, path |-> "", chk |-> "none",
     writes |-> <<>>, wi |-> 0, hit |-> FALSE, err |-> "none",
     attrs |-> EmptyAttrs, overlapped |-> FALSE, rerun |-> FALSE]

Active(c) == c.pc \in {"check", "delete", "create", "attrs"}

InitSteps ==
    /\ z \in StepStores
    /\ ncalls = 0
    /\ last = NoCall
    /\ prev = NoCall
    /\ sw = SweepIdle
    /\ pk = PathIdle
    /\ ck = ChunksIdle
    /\ rm = RemoveIdle
    /\ ms = SizeIdle
    /\ lib = "init"
    /\ st = [seeds |-> 0, base |-> z, c |-> [q \in Procs |-> IdleCaller]]
    /\ tm = TimingIdle

StepFrame == UNCHANGED <<ncalls, last, prev, sw, pk, ck, rm, ms, lib, tm>>

SetCaller(q, c) == [st EXCEPT !.c[q] = c]

\* the call is entered: lines 265-278
Begin(q, p, ext) ==
    /\ st.c[q].pc = "idle"
    /\ st' = SetCaller(q,
                [IdleCaller EXCEPT
                    !.pc = "check", !.p = p, !.ext = ext, !.path = KeyOf(p),
                    !.overlapped = \E o \in Procs \ {q} :
                                       st.c[o].pc \in {"create", "attrs"},
                    !.rerun = \E o \in Procs \ {q} :
                                  st.c[o].pc = "failed" /\ st.c[o].p = p])
    /\ z' = z
    /\ StepFrame

\* the same, by a caller that starts when no other call is running
BeginAlone(q, p, ext) ==
    /\ \A o \in Procs : ~Active(st.c[o])
    /\ Begin(q, p, ext)

\* lines 279-293 up to the decision
Check(q) ==
    /\ st.c[q].pc = "check"
    /\ LET c == st.c[q]
           chk == CacheCheck(z, c.p, c.path)
       IN  st' = SetCaller(q,
                   IF chk = "KeyError"
                   THEN [c EXCEPT !.pc = "raised", !.chk = chk, !.err = "KeyError"]
                   ELSE IF chk = "hit"
                   THEN [c EXCEPT !.pc = "returned", !.chk = chk, !.hit = TRUE,
                                  !.attrs = z[c.path].attrs]
                   ELSE IF chk = "stale"
                   THEN [c EXCEPT !.pc = "delete", !.chk = chk]
                   ELSE [c EXCEPT !.pc = "create", !.chk = chk])
    /\ z' = z
    /\ StepFrame

\* line 293; deleting a key that is no longer there raises KeyError
Delete(q) ==
    /\ st.c[q].pc = "delete"
    /\ LET c == st.c[q]
       IN  IF Contains(z, c.path)
           THEN /\ z' = DelItem(z, c.path)
                /\ st' = SetCaller(q, [c EXCEPT !.pc = "create"])
           ELSE /\ z' = z
                /\ st' = SetCaller(q, [c EXCEPT !.pc = "raised", !.err = "KeyError"])
    /\ StepFrame

\* lines 294-343; create_dataset refuses a path that holds an array
Create(q) ==
    /\ st.c[q].pc = "create"
    /\ LET c == st.c[q]
           sel == SelectCodec(c.p)
           chunks == get_chunks_for_shape(XShape).val
       IN  IF ~sel.ok
           THEN /\ z' = z
                /\ st' = SetCaller(q, [c EXCEPT !.pc = "raised", !.err = sel.err])
           ELSE IF Contains(z, c.path)
           THEN /\ z' = z
                /\ st' = SetCaller(q, [c EXCEPT !.pc = "raised",
                                                !.err = "ContainsArrayError"])
           ELSE IF ~CodecAccepts(sel.codec)
           THEN /\ z' = IF c.ext.reject = "init" THEN z
                        ELSE CreateDataset(z, c.path, sel.codec, chunks, FALSE, c.p)
                /\ st' = SetCaller(q, [c EXCEPT !.pc = "raised",
                                                !.err = "ValueError: codec"])
           ELSE /\ z' = CreateDataset(z, c.path, sel.codec, chunks, TRUE, c.p)
                /\ st' = SetCaller(q, [c EXCEPT !.pc = "attrs", !.wi = 1,
                                        !.writes = AttrWrites(c.p, sel.codec, c.ext)])
    /\ StepFrame

\* one of the writes of lines 360-398; the last one is followed by the
\* return of line 399.  A write for a dataset that another caller has
\* deleted leaves no dataset behind.
WriteAttr(q) ==
    /\ st.c[q].pc = "attrs"
    /\ LET c == st.c[q]
           w == c.writes[c.wi]
           z1 == IF Contains(z, c.path)
                 THEN (c.path :> [z[c.path] EXCEPT !.attrs = SetAttr(@, w[1], w[2])]) @@ z
                 ELSE z
       IN  /\ z' = z1
           /\ st' = SetCaller(q,
                      IF c.wi < Len(c.writes)
                      THEN [c EXCEPT !.wi = @ + 1]
                      ELSE [c EXCEPT !.pc = "returned",
                                     !.attrs = IF Contains(z1, c.path)
                                               THEN z1[c.path].attrs
                                               ELSE EmptyAttrs])
    /\ StepFrame

\* a store or network failure propagates out of the call (no retry, no
\* cleanup): before the delete, after it, after create_dataset or between
\* two attribute writes
Fail(q) ==
    /\ st.c[q].pc \in {"delete", "create", "attrs"}
    /\ st' = SetCaller(q, [st.c[q] EXCEPT !.pc = "failed", !.err = "IOError"])
    /\ z' = z
    /\ StepFrame

BeginChoices(q) ==
    \E p \in StepArgs : \E ext \in ExtChoices(p, lib) : Begin(q, p, ext)

BeginAloneChoices(q) ==
    \E p \in StepArgs : \E ext \in ExtChoices(p, lib) : BeginAlone(q, p, ext)

\* SpecSteps: the callers run at the same time
NextSteps ==
    \E q \in Procs :
        \/ BeginChoices(q)
        \/ Check(q)
        \/ Delete(q)
        \/ Create(q)
        \/ WriteAttr(q)

SpecSteps == InitSteps /\ [][NextSteps]_vars

\* SpecRerun: one call at a time, and a call may fail
NextRerun ==
    \E q \in Procs :
        \/ BeginAloneChoices(q)
        \/ Check(q)
        \/ Delete(q)
        \/ Create(q)
        \/ WriteAttr(q)
        \/ Fail(q)

SpecRerun == InitSteps /\ [][NextRerun]_vars

(***************************************************************************)
(* Properties of the step-wise model                                       *)
(***************************************************************************)
\* the attribute names the creating call of an artifact writes
RequiredAttrs(by) ==
    LET e == CHOOSE x \in ExtChoices(by, "init") : TRUE
    IN  {w[1] : w \in Range(AttrWrites(by, SelectCodec(by).codec, e))}

\* the key holds a dataset with its data and all the metadata of its
\* creating call
CompleteAt(store, path) ==
    /\ Contains(store, path)
    /\ store[path].written
    /\ RequiredAttrs(store[path].created_by) \subseteq DOMAIN store[path].attrs

\* the caller has found a stale artifact and is between its delete and its
\* last attribute write
Recreating(c) == c.chk = "stale" /\ c.pc \in {"create", "attrs"}

\* C12: while one caller is inside the delete-then-recreate sequence of a
\* key, any other caller of do_compress that is about to look at the same
\* key finds a complete artifact there (the old one or the new one), never a
\* missing key or a dataset without its metadata.
C12_RecreateIsOneTransaction ==
    \A a \in Procs : \A b \in Procs \ {a} :
        (/\ Recreating(st.c[a])
         /\ st.c[b].pc = "check"
         /\ st.c[b].path = st.c[a].path)
        => CompleteAt(z, st.c[a].path)

\* C13: a call that is made again with the parameters of a call that failed
\* part-way never raises on what the failed call left at the key, and when
\* it returns the dataset at the key as a cache hit, that dataset has its data
\* and every attribute its creating call writes.
C13_RerunNeverReusesLeftover ==
    \A q \in Procs :
        st.c[q].rerun =>
            /\ st.c[q].pc # "raised"
            /\ (st.c[q].pc = "returned" /\ st.c[q].hit) =>
                   /\ z[st.c[q].path].written
                   /\ RequiredAttrs(z[st.c[q].path].created_by)
                          \subseteq DOMAIN st.c[q].attrs

\* the callers have both ended their calls
Ended(c) == c.pc \in {"returned", "raised", "failed"}

\* a step changes, deletes or creates the dataset at key k
Touched(k) ==
    \/ k \in DOMAIN z /\ k \notin DOMAIN z'
    \/ k \notin DOMAIN z /\ k \in DOMAIN z'
    \/ k \in DOMAIN z /\ k \in DOMAIN z' /\ z'[k] # z[k]

\* every step touches at most the key of the caller that takes it, and never
\* an input dataset
OwnKeyOnly ==
    \A k \in DOMAIN z \cup DOMAIN z' :
        Touched(k) =>
            /\ k \notin InputKeys
            /\ \E q \in Procs : st'.c[q] # st.c[q] /\ st.c[q].path = k

\* two calls with different keys, however their steps interleave, both return
\* and leave the store that the two calls leave when one runs after the other,
\* in either order, each returning what it returns when run alone
SameAsSequential ==
    \A a \in Procs : \A b \in Procs \ {a} :
        (Ended(st.c[a]) /\ Ended(st.c[b]) /\ st.c[a].path # st.c[b].path) =>
            LET ra == do_compress(st.base, st.c[a].p, st.c[a].ext)
                rab == do_compress(ra.z, st.c[b].p, st.c[b].ext)
            IN  /\ st.c[a].pc = "returned"
                /\ st.c[b].pc = "returned"
                /\ z = rab.z
                /\ st.c[a].attrs = ra.attrs
                /\ st.c[b].attrs = rab.attrs
                /\ st.c[a].hit = ra.hit
                /\ st.c[b].hit = rab.hit

\* C14: a do_compress call deletes, creates and modifies only the dataset at
\* its own key and never an input dataset; two calls with different keys,
\* interleaved step by step in any way, end with the store contents of their
\* sequential execution in either order.
C14_DifferentKeysIndependent == []SameAsSequential /\ [][OwnKeyOnly]_vars

\* both calls have returned, their keys differ, one started while the other
\* was between create_dataset and its last attribute write, and one of them
\* replaced a stale artifact
C14_Witness ==
    /\ \A q \in Procs : st.c[q].pc = "returned"
    /\ st.c["a"].path # st.c["b"].path
    /\ \E q \in Procs : st.c[q].overlapped
    /\ \E q \in Procs : st.c[q].chk = "stale"
    /\ \E q \in Procs : st.c[q].chk = "absent"

====
